---- MODULE Spec2Model ----
(***************************************************************************)
(* Model of the image-describer command line tool:                         *)
(*   src/src/describe/cli.py          main, should_skip, build_backend,    *)
(*                                    try_store_metadata                   *)
(*   src/src/describe/store.py        JsonIndex, write_exif_description,   *)
(*                                    has_exif_description                 *)
(*   src/build/lib/describe/backends.py   the three Backend variants       *)
(*                                                                         *)
(* One behaviour is one invocation of main (Spec) or two invocations in    *)
(* succession on the same file system with the same arguments (SpecTwice). *)
(* Images are identified by their position in the sorted list returned by  *)
(* collect_images; the relative path of image k is the Index key k.  Key 0 *)
(* is a record of the Index file that belongs to no image of the run.      *)
(***************************************************************************)
EXTENDS Integers, Sequences, FiniteSets, TLC

\* Largest number of images found under the target path.
MaxImages == 2
\* Largest number of pieces in the raw output of the child.
MaxText == 3
\* Largest number of pieces in the prompt.
MaxPrompt == 1

VARIABLES
    \* ---- command line (args) and file system, fixed by the caller ----
    store,        \* args.store
    force,        \* args.force
    backend,      \* args.backend
    llama_args,   \* which of --llama-bin/--llama-model/--llama-mmproj are set
    args_index,   \* args.index: "" (not given), "dir" (dir/idx.json), "bare" (idx.json)
    base_dir,     \* base_dir of collect_images: "dir" (some/folder) or "." (Path("."))
    path_kind,    \* what args.path points at
    images,       \* sorted image files under the path; images[k] is TRUE for .jpg/.jpeg
    \* ---- persistent file system state ----
    tag,          \* tag[k]: file k carries a non-empty EXIF UserComment
    disk,         \* the file at the index path
    tmp,          \* temp file of JsonIndex.save: "none", "partial", "complete"
    \* ---- state of the running main ----
    run,          \* "first" or "second" invocation
    pc,           \* position in main
    i,            \* loop position: next image to handle
    index_path,   \* JsonIndex.path: "unset" before construction, "" for None
    data,         \* JsonIndex.data
    changed,      \* JsonIndex.changed
    had_errors,   \* had_errors of main
    status,       \* status[k]: the status line printed for image k in this run
    invoked,      \* images for which backend.describe was called in this run
    calls,        \* number of backend.describe calls made in this run
    meta_result,  \* meta_result[k]: what the metadata write for image k did in this run
    lastOutcome,  \* what the most recent backend.describe call met
    saves,        \* number of calls of index.save in this run
    ret,          \* return value of main ("0", "1", "2"), "none" while running or when it raised
    exc,          \* exception that left main, "none" otherwise
    \* ---- snapshots taken when the run started ----
    tag0,         \* tag at the start of the run
    disk0,        \* disk at the start of the run
    prev_status,  \* status of the previous run
    prev_ret,     \* ret of the previous run
    \* ---- the clean step of the subprocess Backend, on its own ----
    prompt,       \* the prompt given to describe
    stdout,       \* proc.stdout, the raw output of the child
    cleaned,      \* _clean_llama_output(stdout, prompt)
    cleaned2      \* _clean_llama_output(cleaned, prompt)

vars == <<store, force, backend, llama_args, args_index, base_dir, path_kind, images,
          tag, disk, tmp, run, pc, i, index_path, data, changed, had_errors,
          status, invoked, calls, meta_result, lastOutcome, saves, ret, exc,
          tag0, disk0, prev_status, prev_ret, prompt, stdout, cleaned, cleaned2>>

cleanState == <<prompt, stdout, cleaned, cleaned2>>
args == <<store, force, backend, llama_args, args_index, base_dir, path_kind, images>>

-----------------------------------------------------------------------------
\* Values

StoreModes == {"auto", "json", "metadata", "both"}
Backends == {"ollama", "vllm", "llama-cpp"}
LlamaParams == {"llama_bin", "llama_model", "llama_mmproj"}
PathKinds == {"missing", "not_image", "not_file_or_dir", "file", "dir"}

KeySpace == 0 .. MaxImages
\* The file at the index path: absent, or holding a whole JSON document, or
\* holding the beginning of one (a write in progress).
NoFile == [exists |-> FALSE, whole |-> TRUE, doc |-> [k \in KeySpace |-> "absent"]]
File(d) == [exists |-> TRUE, whole |-> TRUE, doc |-> d]
PartialFile == [exists |-> TRUE, whole |-> FALSE, doc |-> [k \in KeySpace |-> "absent"]]
Absent == "absent"
\* A Description Record is identified by where it comes from: "old" was in the
\* Index file before the first run; the record built in a run carries updated_at
\* of that run and is named after the run.
Records == {"old", "first", "second"}
Docs == [KeySpace -> Records \cup {Absent}]
EmptyDoc == [k \in KeySpace |-> Absent]

Positions == 1 .. Len(images)
NoStatus == [k \in 1 .. MaxImages |-> "none"]

-----------------------------------------------------------------------------
\* backends.py

\* What a describe call can meet, per Backend variant.  "timeout" is the request
\* or the child running past self.timeout.
OllamaOutcomes == {"ok", "unreadable_image", "connection_error", "timeout",
                   "http_error", "invalid_json"}
VllmOutcomes == OllamaOutcomes \cup {"no_choices"}
LlamaOutcomes == {"ok", "binary_not_found", "nonzero_exit", "timeout"}

Outcomes(b) ==
    CASE b = "ollama" -> OllamaOutcomes
      [] b = "vllm" -> VllmOutcomes
      [] b = "llama-cpp" -> LlamaOutcomes

\* OllamaBackend.describe: every failure is raised as BackendError
\* (requests.Timeout is a requests.RequestException).
OllamaDescribe(outcome) ==
    IF outcome = "ok" THEN "caption" ELSE "BackendError"

\* VllmBackend.describe: as above, plus BackendError on zero choices.
VllmDescribe(outcome) ==
    IF outcome = "ok" THEN "caption" ELSE "BackendError"

\* LlamaCppBackend.describe: subprocess.run raises FileNotFoundError, which is
\* converted, or subprocess.TimeoutExpired, for which there is no handler; a
\* non-zero return code is converted.
LlamaCppDescribe(outcome) ==
    CASE outcome = "ok" -> "caption"
      [] outcome = "binary_not_found" -> "BackendError"
      [] outcome = "nonzero_exit" -> "BackendError"
      [] outcome = "timeout" -> "TimeoutExpired"

\* backend.describe(image, prompt): "caption", or the exception type raised.
Describe(b, outcome) ==
    CASE b = "ollama" -> OllamaDescribe(outcome)
      [] b = "vllm" -> VllmDescribe(outcome)
      [] b = "llama-cpp" -> LlamaCppDescribe(outcome)

\* Text is a sequence of pieces: a whitespace character, an ordinary character
\* ("x", "y"), or one of the role markers of line 172 taken whole.  No piece is
\* the beginning of another, so str.startswith on the text is the prefix relation
\* on pieces.
RoleMarkers == <<"Assistant:", "ASSISTANT:", "### Assistant:", "### ASSISTANT:">>
Whitespace == {" "}
Pieces == Whitespace \cup {"x", "y"} \cup {RoleMarkers[n] : n \in DOMAIN RoleMarkers}
SeqsUpTo(S, n) == UNION {[1 .. m -> S] : m \in 0 .. n}

\* s[len(p):]
DropFirst(s, n) == SubSeq(s, n + 1, Len(s))

\* str.startswith
StartsWith(s, p) == Len(p) <= Len(s) /\ SubSeq(s, 1, Len(p)) = p

RECURSIVE lstrip(_)
\* str.lstrip
lstrip(s) == IF s # <<>> /\ Head(s) \in Whitespace THEN lstrip(Tail(s)) ELSE s

RECURSIVE rstrip(_)
\* str.rstrip
rstrip(s) ==
    IF s # <<>> /\ s[Len(s)] \in Whitespace THEN rstrip(SubSeq(s, 1, Len(s) - 1)) ELSE s

\* str.strip
strip(s) == rstrip(lstrip(s))

\* lines 172-175: the first marker of the list the text starts with is removed,
\* and the text trimmed on the left; at most one marker is removed
StripRoleMarker(s) ==
    LET matching == {n \in DOMAIN RoleMarkers : StartsWith(s, <<RoleMarkers[n]>>)} IN
    IF matching = {} THEN s
    ELSE lstrip(DropFirst(s, 1))

\* A clean step that removes the prefixes without trimming again afterwards.
_clean_llama_output_no_retrim(raw, p) ==
    LET c0 == strip(raw)
        c1 == IF p # <<>> /\ StartsWith(c0, p) THEN DropFirst(c0, Len(p)) ELSE c0
        c2 == IF \E n \in DOMAIN RoleMarkers : StartsWith(c1, <<RoleMarkers[n]>>)
                 THEN DropFirst(c1, 1) ELSE c1
    IN  IF c0 = <<>> THEN c0 ELSE c2

\* _clean_llama_output(text, prompt), lines 164-177
_clean_llama_output(raw, p) ==
    LET c0 == strip(raw)
        c1 == IF p # <<>> /\ StartsWith(c0, p) THEN lstrip(DropFirst(c0, Len(p))) ELSE c0
        c2 == StripRoleMarker(c1)
    IN  IF c0 = <<>> THEN c0 ELSE strip(c2)

-----------------------------------------------------------------------------
\* store.py

\* JsonIndex.has
IndexHas(d, key) == d[key] # Absent

\* A set that files the record under a key that is not the image's.
IndexSet_other_key(d, key, value) == [d EXCEPT ![0] = value]

\* A set that replaces the whole map by the one record.
IndexSet_replaces(d, key, value) == [k \in KeySpace |-> IF k = key THEN value ELSE Absent]

\* JsonIndex.set (the data part; changed is set by the caller's action)
IndexSet(d, key, value) == [d EXCEPT ![key] = value]

\* A save that dumps straight into the index file.
SaveWritesTo_index(path) == "index"

\* JsonIndex.save lines 44-53: the file json.dump writes into, a
\* NamedTemporaryFile in the directory of the index file.
SaveWritesTo(path) == "temp"

\* A JsonIndex that never reads its file.
Load_never(path, file) == EmptyDoc

\* JsonIndex._load: the document of the file, {} without a path or a file.
Load(path, file) ==
    IF path = "" THEN EmptyDoc
    ELSE IF ~file.exists THEN EmptyDoc
    ELSE file.doc

\* A save that does not look at self.changed.
SaveReturnsEarly_ignores_changed(path, chg) == path = ""

\* JsonIndex.save lines 41-42: nothing to do without a path or a mutation.
SaveReturnsEarly(path, chg) == path = "" \/ ~chg

\* os.makedirs(os.path.dirname(self.path), exist_ok=True) in JsonIndex.save:
\* dirname of a bare file name is "", and os.makedirs("") raises
\* FileNotFoundError.
MakedirsRaises(path) == path = "bare"

\* has_exif_description(path): false for any extension but .jpg/.jpeg.
has_exif_description(is_jpeg, has_tag) ==
    IF ~is_jpeg THEN FALSE ELSE has_tag

-----------------------------------------------------------------------------
\* cli.py

\* A build_backend that validates the executable only.
BuildBackendRaises_bin_only(b, given) ==
    b = "llama-cpp" /\ "llama_bin" \notin given

\* build_backend raises ValueError: llama-cpp without one of its three parameters.
BuildBackendRaises(b, given) ==
    b = "llama-cpp" /\ (   "llama_bin" \notin given
                        \/ "llama_model" \notin given
                        \/ "llama_mmproj" \notin given)

\* str(base_dir / "descriptions.json"): pathlib drops a leading ".", so under
\* Path(".") the result is the bare file name.
DefaultIndexPath(base) == IF base = "." THEN "bare" ELSE "dir"

\* A main without the default index path of lines 55-56.
ResolveIndexPath_no_default(idx, mode, base) == idx

\* index_path of main, lines 54-56.
ResolveIndexPath(idx, mode, base) ==
    IF idx = "" /\ mode \in {"auto", "json", "both"} THEN DefaultIndexPath(base)
    ELSE idx

\* A should_skip that consults the Index only (no lines 191-196).
should_skip_index_only(f, mode, is_jpeg, has_key, has_tag) ==
    IF f THEN FALSE
    ELSE LET json_needed == mode \in {"json", "both"} \/ (mode = "auto" /\ ~is_jpeg)
             json_ok == IF json_needed THEN has_key ELSE TRUE
         IN  json_ok

\* A should_skip without lines 195-196: an unsatisfiable metadata need is ignored.
should_skip_no_elif(f, mode, is_jpeg, has_key, has_tag) ==
    IF f THEN FALSE
    ELSE LET json_needed == mode \in {"json", "both"} \/ (mode = "auto" /\ ~is_jpeg)
             meta_needed == mode \in {"metadata", "both"} \/ (mode = "auto" /\ is_jpeg)
             json_ok == IF json_needed THEN has_key ELSE TRUE
             meta_ok == IF meta_needed /\ is_jpeg THEN has_tag ELSE TRUE
         IN  json_ok /\ meta_ok

\* should_skip, with index.has(rel_path) and the file's tag as arguments.  A
\* JsonIndex object is always truthy (it defines neither __bool__ nor __len__).
should_skip(f, mode, is_jpeg, has_key, has_tag) ==
    IF f THEN FALSE
    ELSE LET json_needed == mode \in {"json", "both"} \/ (mode = "auto" /\ ~is_jpeg)
             meta_needed == mode \in {"metadata", "both"} \/ (mode = "auto" /\ is_jpeg)
             index_truthy == TRUE
             json_ok == IF json_needed /\ index_truthy THEN has_key ELSE TRUE
             meta_ok == IF meta_needed /\ is_jpeg
                           THEN has_exif_description(is_jpeg, has_tag)
                        ELSE IF meta_needed /\ ~is_jpeg THEN FALSE
                        ELSE TRUE
         IN  json_ok /\ meta_ok

\* A metadata write without the extension checks.
MetadataResults_any_ext(is_jpeg) == {"stored", "StoreError"}

\* try_store_metadata / write_exif_description: "unsupported" is the False
\* returned for a file that is not .jpg/.jpeg; for a JPEG the write returns True
\* ("stored") or raises, which try_store_metadata turns into StoreError.
MetadataResults(is_jpeg) ==
    IF is_jpeg THEN {"stored", "StoreError"} ELSE {"unsupported"}

\* main line 84: the metadata write is attempted.
MetaAttempted(mode) == mode \in {"auto", "metadata", "both"}

\* A line 92 that writes the Index under auto whatever stored_meta is.
IndexWritten_auto_always(mode, stored_meta) ==
    mode \in {"json", "both", "auto"}

\* main line 92: index.set is reached and executed.
IndexWritten(mode, stored_meta) ==
    mode \in {"json", "both"} \/ (mode = "auto" /\ ~stored_meta)

-----------------------------------------------------------------------------
\* Initial states: the arguments and the file system main is started on.

ImageLists == UNION {[1 .. n -> BOOLEAN] : n \in 0 .. MaxImages}

Init ==
    /\ store \in StoreModes
    /\ force \in BOOLEAN
    /\ backend \in Backends
    \* the llama parameters are read by build_backend for llama-cpp only
    /\ llama_args \in IF backend = "llama-cpp" THEN SUBSET LlamaParams ELSE {{}}
    /\ args_index \in {"", "dir", "bare"}
    \* base_dir is read for the default index path only
    /\ base_dir \in IF args_index = "" THEN {"dir", "."} ELSE {"dir"}
    /\ path_kind \in PathKinds
    /\ images \in ImageLists
    /\ path_kind = "file" => Len(images) = 1
    /\ path_kind \notin {"file", "dir"} => images = <<>>
    /\ tag \in [1 .. MaxImages -> BOOLEAN]
    /\ \A k \in 1 .. MaxImages : k > Len(images) => ~tag[k]
    /\ disk \in {NoFile} \cup {File(d) : d \in [KeySpace -> {"old", Absent}]}
    /\ \A k \in KeySpace : k > Len(images) => disk.doc[k] = Absent
    \* an existing Index file holds a record of another image (key 0)
    /\ disk.exists => disk.doc[0] = "old"
    /\ ResolveIndexPath(args_index, store, base_dir) = "" => disk = NoFile
    /\ tmp = "none"
    /\ run = "first"
    /\ pc = "check_path"
    /\ i = 1
    /\ index_path = "unset"
    /\ data = EmptyDoc
    /\ changed = FALSE
    /\ had_errors = FALSE
    /\ status = NoStatus
    /\ invoked = {}
    /\ calls = 0
    /\ meta_result = NoStatus
    /\ lastOutcome = "none"
    /\ saves = 0
    /\ ret = "none"
    /\ exc = "none"
    /\ tag0 = tag
    /\ disk0 = disk
    /\ prev_status = NoStatus
    /\ prev_ret = "none"
    /\ prompt = <<>> /\ stdout = <<>> /\ cleaned = <<>> /\ cleaned2 = <<>>

-----------------------------------------------------------------------------
\* main, lines 30-57: everything before the loop

\* A main that always returns 0 after the loop.
ExitCode_zero(errors) == "0"

\* line 103
ExitCode(errors) == IF errors THEN "1" ELSE "0"

\* lines 254-255, raise SystemExit(main()): the status of the process is what
\* main returned, and 1 when an exception left main.
ExitStatus(returned, raised) == IF raised # "none" THEN "1" ELSE returned

Return(code) ==
    /\ pc' = "returned"
    /\ ret' = code

fs == <<tag, disk, tmp>>
snapshots == <<tag0, disk0, prev_status, prev_ret>>
loopState == <<i, had_errors, status, invoked, calls, meta_result, lastOutcome>>
indexState == <<index_path, data, changed>>

\* lines 33-36
PathNotFound ==
    /\ pc = "check_path"
    /\ path_kind = "missing"
    /\ Return("2")
    /\ UNCHANGED <<args, cleanState, fs, snapshots, loopState, indexState, run, saves, exc>>

\* lines 38-42: collect_images raises ValueError
NotAnImage ==
    /\ pc = "check_path"
    /\ path_kind \in {"not_image", "not_file_or_dir"}
    /\ Return("2")
    /\ UNCHANGED <<args, cleanState, fs, snapshots, loopState, indexState, run, saves, exc>>

\* lines 44-46
NoImages ==
    /\ pc = "check_path"
    /\ path_kind \in {"file", "dir"}
    /\ images = <<>>
    /\ Return("1")
    /\ UNCHANGED <<args, cleanState, fs, snapshots, loopState, indexState, run, saves, exc>>

\* lines 48-52: build_backend raises ValueError
BadBackendConfig ==
    /\ pc = "check_path"
    /\ path_kind \in {"file", "dir"}
    /\ images # <<>>
    /\ BuildBackendRaises(backend, llama_args)
    /\ Return("2")
    /\ UNCHANGED <<args, cleanState, fs, snapshots, loopState, indexState, run, saves, exc>>

\* lines 33-59 without an early return: the Index is constructed and loaded
EnterLoop ==
    /\ pc = "check_path"
    /\ path_kind \in {"file", "dir"}
    /\ images # <<>>
    /\ ~BuildBackendRaises(backend, llama_args)
    /\ index_path' = ResolveIndexPath(args_index, store, base_dir)
    /\ data' = Load(index_path', disk)
    /\ changed' = FALSE
    /\ had_errors' = FALSE
    /\ pc' = "loop"
    /\ UNCHANGED <<args, cleanState, fs, snapshots, i, status, invoked, calls, meta_result, lastOutcome,
                   run, saves, ret, exc>>

-----------------------------------------------------------------------------
\* main, lines 60-100: one iteration of the loop per action

InLoop == pc = "loop" /\ i <= Len(images)

\* should_skip(args, index, image, rel_path) for image k in the current state
SkipNow(k) ==
    should_skip(force, store, images[k], IndexHas(data, k), tag[k])

Line(k, text) == [status EXCEPT ![k] = text]

\* lines 63-65
Skip ==
    /\ InLoop
    /\ SkipNow(i)
    /\ status' = Line(i, "skip")
    /\ i' = i + 1
    /\ UNCHANGED <<args, cleanState, fs, snapshots, indexState, had_errors, invoked, calls, meta_result,
                   lastOutcome, run, pc, saves, ret, exc>>

\* lines 67-72: describe raises BackendError
DescribeFails ==
    /\ InLoop
    /\ ~SkipNow(i)
    /\ \E o \in Outcomes(backend) :
          /\ Describe(backend, o) = "BackendError"
          /\ lastOutcome' = o
    /\ invoked' = invoked \cup {i}
    /\ calls' = calls + 1
    /\ status' = Line(i, "error: backend")
    /\ had_errors' = TRUE
    /\ i' = i + 1
    /\ UNCHANGED <<args, cleanState, fs, snapshots, indexState, meta_result, run, pc, saves, ret,
                   exc>>

\* line 68: describe raises an exception that is not a BackendError; no handler
\* in main catches it
DescribeRaises ==
    /\ InLoop
    /\ ~SkipNow(i)
    /\ \E o \in Outcomes(backend) :
          /\ Describe(backend, o) \notin {"caption", "BackendError"}
          /\ lastOutcome' = o
          /\ exc' = Describe(backend, o)
    /\ invoked' = invoked \cup {i}
    /\ calls' = calls + 1
    /\ pc' = "raised"
    /\ UNCHANGED <<args, cleanState, fs, snapshots, indexState, i, had_errors, status, meta_result,
                   run, saves, ret>>

Described ==
    /\ InLoop
    /\ ~SkipNow(i)
    /\ \E o \in Outcomes(backend) :
          /\ Describe(backend, o) = "caption"
          /\ lastOutcome' = o
    /\ invoked' = invoked \cup {i}
    /\ calls' = calls + 1

\* lines 82-85 and 95-98: the metadata write raises, StoreError is caught
StoreFails ==
    /\ Described
    /\ MetaAttempted(store)
    /\ "StoreError" \in MetadataResults(images[i])
    /\ meta_result' = [meta_result EXCEPT ![i] = "StoreError"]
    /\ status' = Line(i, "error: store")
    /\ had_errors' = TRUE
    /\ i' = i + 1
    /\ UNCHANGED <<args, cleanState, fs, snapshots, indexState, run, pc, saves, ret, exc>>

\* lines 87-90
MetadataUnsupported ==
    /\ Described
    /\ MetaAttempted(store)
    /\ "unsupported" \in MetadataResults(images[i])
    /\ store = "metadata"
    /\ meta_result' = [meta_result EXCEPT ![i] = "unsupported"]
    /\ status' = Line(i, "error: metadata not supported")
    /\ had_errors' = TRUE
    /\ i' = i + 1
    /\ UNCHANGED <<args, cleanState, fs, snapshots, indexState, run, pc, saves, ret, exc>>

\* lines 82-100 without an error: stored_meta, then index.set when line 92 says so
Stored ==
    /\ Described
    /\ \E r \in IF MetaAttempted(store) THEN MetadataResults(images[i])
                                        ELSE {"not attempted"} :
          LET stored_meta == r = "stored" IN
          /\ r # "StoreError"
          /\ ~(store = "metadata" /\ ~stored_meta)
          /\ meta_result' = [meta_result EXCEPT ![i] = r]
          /\ tag' = IF stored_meta THEN [tag EXCEPT ![i] = TRUE] ELSE tag
          /\ IF IndexWritten(store, stored_meta)
                THEN /\ data' = IndexSet(data, i, run)
                     /\ changed' = TRUE
                ELSE UNCHANGED <<data, changed>>
    /\ status' = Line(i, "ok")
    /\ i' = i + 1
    /\ UNCHANGED <<args, cleanState, disk, tmp, snapshots, index_path, had_errors, run, pc, saves,
                   ret, exc>>

-----------------------------------------------------------------------------
\* main, lines 102-103, and JsonIndex.save

AtSave == pc = "loop" /\ i > Len(images)

\* save returns at line 42; main returns
SaveNothing ==
    /\ AtSave
    /\ SaveReturnsEarly(index_path, changed)
    /\ saves' = saves + 1
    /\ Return(ExitCode(had_errors))
    /\ UNCHANGED <<args, cleanState, fs, snapshots, loopState, indexState, run, exc>>

\* save line 43 raises
SaveMakedirsRaises ==
    /\ AtSave
    /\ ~SaveReturnsEarly(index_path, changed)
    /\ MakedirsRaises(index_path)
    /\ saves' = saves + 1
    /\ pc' = "raised"
    /\ exc' = "FileNotFoundError"
    /\ UNCHANGED <<args, cleanState, fs, snapshots, loopState, indexState, run, ret>>

\* save lines 43-50: the output file is opened (created empty)
SaveOpen ==
    /\ AtSave
    /\ ~SaveReturnsEarly(index_path, changed)
    /\ ~MakedirsRaises(index_path)
    /\ saves' = saves + 1
    /\ IF SaveWritesTo(index_path) = "temp"
          THEN tmp' = "partial" /\ disk' = disk
          ELSE disk' = PartialFile /\ tmp' = tmp
    /\ pc' = "save_dump"
    /\ UNCHANGED <<args, cleanState, tag, snapshots, loopState, indexState, run, ret, exc>>

\* save lines 51-53: json.dump, the newline, close
SaveDump ==
    /\ pc = "save_dump"
    /\ IF SaveWritesTo(index_path) = "temp"
          THEN tmp' = "complete" /\ disk' = disk
          ELSE disk' = File(data) /\ tmp' = tmp
    /\ pc' = "save_replace"
    /\ UNCHANGED <<args, cleanState, tag, snapshots, loopState, indexState, run, saves, ret, exc>>

\* save line 54, os.replace, then main line 103
SaveReplace ==
    /\ pc = "save_replace"
    /\ IF SaveWritesTo(index_path) = "temp"
          THEN tmp' = "none" /\ disk' = File(data)
          ELSE UNCHANGED <<tmp, disk>>
    /\ Return(ExitCode(had_errors))
    /\ UNCHANGED <<args, cleanState, tag, snapshots, loopState, indexState, run, saves, exc>>

-----------------------------------------------------------------------------
\* A second invocation with the same arguments on the file system the first left

Ended == pc \in {"returned", "raised"}

RunAgain ==
    /\ Ended
    /\ run = "first"
    /\ run' = "second"
    /\ pc' = "check_path"
    /\ i' = 1
    /\ index_path' = "unset"
    /\ data' = EmptyDoc
    /\ changed' = FALSE
    /\ had_errors' = FALSE
    /\ status' = NoStatus
    /\ invoked' = {}
    /\ calls' = 0
    /\ meta_result' = NoStatus
    /\ lastOutcome' = "none"
    /\ saves' = 0
    /\ ret' = "none"
    /\ exc' = "none"
    /\ tag0' = tag
    /\ disk0' = disk
    /\ prev_status' = status
    /\ prev_ret' = ret
    /\ UNCHANGED <<args, cleanState, fs>>

-----------------------------------------------------------------------------

Next ==
    \/ PathNotFound
    \/ NotAnImage
    \/ NoImages
    \/ BadBackendConfig
    \/ EnterLoop
    \/ Skip
    \/ DescribeFails
    \/ DescribeRaises
    \/ StoreFails
    \/ MetadataUnsupported
    \/ Stored
    \/ SaveNothing
    \/ SaveMakedirsRaises
    \/ SaveOpen
    \/ SaveDump
    \/ SaveReplace

\* one invocation of main
Spec == Init /\ [][Next]_vars

\* two invocations in succession with force off, on a file system where only
\* .jpg/.jpeg files carry an EXIF description (the only tags store.py reads)
InitTwice ==
    /\ Init
    /\ ~force
    /\ \A k \in 1 .. MaxImages : tag[k] => (k <= Len(images) /\ images[k])

SpecTwice == InitTwice /\ [][Next \/ RunAgain]_vars

-----------------------------------------------------------------------------
\* Properties

LoopReached == index_path # "unset"
ErrorLines == {"error: backend", "error: store", "error: metadata not supported"}
\* the loop has taken its decision on image k
Decided(k) == status[k] # "none" \/ k \in invoked
\* the Backend returned a caption for image k
Captioned(k) == status[k] \in {"ok", "error: store", "error: metadata not supported"}
\* the Index as loaded at the start of the run had a record for key k
IndexHadKey(k) == index_path # "" /\ disk0.exists /\ disk0.doc[k] # Absent
\* index.set(k, record) was executed in this run
IndexSetDone(k) == data[k] = run

\* C1: an image is skipped exactly when force is off and json_ok and meta_ok hold,
\* with json_needed, meta_needed, json_ok and meta_ok as section 4.2 defines them
\* from the mode, the format class, the key's presence in the Index and the tag's
\* presence in the file.
C1_SkipTruthTable ==
    \A k \in Positions :
        Decided(k) =>
            LET capable == images[k]
                json_needed == store \in {"json", "both"} \/ (store = "auto" /\ ~capable)
                meta_needed == store \in {"metadata", "both"} \/ (store = "auto" /\ capable)
                json_ok == ~json_needed \/ IndexHadKey(k)
                meta_ok == ~meta_needed \/ (capable /\ tag0[k])
            IN  (status[k] = "skip") <=> (~force /\ json_ok /\ meta_ok)

C1_Witness ==
    \E k \in Positions :
        /\ status[k] = "skip"
        /\ store = "both" /\ images[k] /\ IndexHadKey(k) /\ tag0[k]
        /\ \E j \in Positions : j # k /\ ~images[j] /\ tag0[j] /\ status[j] = "ok"

\* C2 as stated, for a first run that returned 0: the second run with the same
\* arguments and force off invokes the Backend for no image.
C2_SecondRunNoInvocation ==
    (run = "second" /\ ~force /\ prev_ret = "0") => invoked = {}

\* C2 amended: after a first run that returned 0, the second run with force off
\* skips every image it reaches, except the images of a format that is not
\* tag-capable under mode both, which it describes again.
C2_SecondRunSkips ==
    (run = "second" /\ ~force /\ prev_ret = "0") =>
        \A k \in Positions :
            Decided(k) =>
                IF store = "both" /\ ~images[k]
                   THEN k \in invoked
                   ELSE status[k] = "skip" /\ k \notin invoked

C2_Witness ==
    /\ run = "second" /\ ~force /\ prev_ret = "0" /\ pc = "returned"
    /\ \E k \in Positions : prev_status[k] = "ok" /\ images[k] /\ status[k] = "skip"
    /\ \E k \in Positions : prev_status[k] = "ok" /\ ~images[k] /\ status[k] = "skip"

\* C3 as stated: once the Backend has returned a caption for an image, index.set
\* is executed for it iff the mode is json or both, or the mode is auto and the
\* metadata write did not succeed (unsupported format, or a write that failed).
C3_IndexWrittenIff ==
    \A k \in Positions :
        Captioned(k) =>
            (IndexSetDone(k) <=>
                (store \in {"json", "both"}
                 \/ (store = "auto" /\ meta_result[k] # "stored")))

\* C3 amended: once the Backend has returned a caption for an image, index.set is
\* executed for it iff the metadata write raised no error and the mode is json or
\* both, or the mode is auto and the format is not tag-capable.
C3_IndexWrittenUnlessStoreError ==
    \A k \in Positions :
        Captioned(k) =>
            (IndexSetDone(k) <=>
                (/\ meta_result[k] # "StoreError"
                 /\ (store \in {"json", "both"}
                     \/ (store = "auto" /\ meta_result[k] = "unsupported"))))

C3_Witness ==
    /\ \E k \in Positions :
          store = "auto" /\ ~images[k] /\ status[k] = "ok" /\ IndexSetDone(k)
    /\ \E k \in Positions :
          store = "auto" /\ images[k] /\ status[k] = "ok" /\ ~IndexSetDone(k)

\* C4: a run that reached the loop ends with one status line for every image,
\* printed in the order of the images.
C4_EveryImageReported ==
    /\ (Ended /\ LoopReached) => \A k \in Positions : status[k] # "none"
    /\ \A k \in Positions : status[k] # "none" => \A j \in 1 .. k : status[j] # "none"

\* C5: a run that reached the loop calls index.save exactly once, after the last
\* image.
C5_SavedOnce ==
    /\ (Ended /\ LoopReached) => saves = 1
    /\ saves > 0 => i > Len(images)
    /\ saves <= 1

\* C6: until the flush replaces it the index file is what it was when the run
\* started; at any time it is the whole old document or the whole new one.
C6_CrashSafe ==
    /\ disk.whole
    /\ disk = disk0 \/ disk = File(data)
    /\ pc # "returned" => disk = disk0

C6_Witness ==
    /\ pc = "save_replace" /\ tmp = "complete"
    /\ disk0.exists /\ disk = disk0 /\ File(data) # disk

NothingProcessed ==
    /\ invoked = {}
    /\ status = NoStatus
    /\ meta_result = NoStatus
    /\ tag = tag0
    /\ disk = disk0 /\ tmp = "none"
    /\ ~changed /\ saves = 0

PathBad == path_kind \in {"missing", "not_image", "not_file_or_dir"}
LlamaConfigBad == backend = "llama-cpp" /\ llama_args # LlamaParams

\* C8 as stated: a missing path, a path that is no image or folder, no image
\* found, or llama-cpp without one of its three parameters make main return 2
\* without a Backend invocation, a metadata write or an Index write.
C8_ConfigErrorsReturn2 ==
    (Ended /\ (PathBad \/ images = <<>> \/ LlamaConfigBad)) =>
        (ret = "2" /\ NothingProcessed)

\* C8 amended: a missing path, a path that is no image or folder, or images found
\* with llama-cpp lacking one of its three parameters make main return 2; no
\* image found makes it return 1; in all these runs there is no Backend
\* invocation, no metadata write and no Index write.
C8_ConfigErrors ==
    (Ended /\ (PathBad \/ images = <<>> \/ LlamaConfigBad)) =>
        /\ NothingProcessed
        /\ exc = "none"
        /\ ret = IF ~PathBad /\ images = <<>> THEN "1" ELSE "2"

C8_Witness ==
    /\ Ended /\ ret = "2"
    /\ images # <<>>
    /\ backend = "llama-cpp" /\ llama_args = {"llama_bin", "llama_model"}

\* C9 as stated: under mode metadata every image of a format that is not
\* tag-capable and that is not skipped is reported as the error "metadata not
\* supported for this file type".
C9_UnsupportedReported ==
    store = "metadata" =>
        \A k \in Positions :
            (~images[k] /\ status[k] \notin {"none", "skip"}) =>
                status[k] = "error: metadata not supported"

\* C9 amended: under mode metadata every image of a format that is not
\* tag-capable and for which the Backend returned a caption is reported as the
\* error "metadata not supported for this file type", nothing is written to the
\* Index for it, the loop goes on to the next image, the exit status of the run is
\* 1 and the run does not create the Index file.
C9_UnsupportedAfterCaption ==
    store = "metadata" =>
        \A k \in Positions :
            (~images[k] /\ (Captioned(k) \/ meta_result[k] # "none")) =>
                /\ status[k] = "error: metadata not supported"
                /\ ~IndexSetDone(k) /\ ~changed
                /\ i > k
                /\ Ended => ExitStatus(ret, exc) = "1"
                /\ disk = disk0

C9_Witness ==
    /\ store = "metadata" /\ pc = "returned" /\ ret = "1"
    /\ args_index = "dir" /\ ~disk.exists
    /\ \E k \in Positions :
          /\ ~images[k] /\ status[k] = "error: metadata not supported"
          /\ k < Len(images) /\ status[k + 1] = "ok"

\* the image of the most recent describe call (images are handled in order)
LastInvoked == CHOOSE k \in invoked : \A j \in invoked : j <= k

\* C10: each failure of the subprocess variant's describe (executable not found,
\* non-zero exit, timeout) reaches main as a BackendError: the image is reported
\* as a Backend error, no exception leaves main, the Index is not written.
C10_LlamaFailuresAreBackendErrors ==
    (backend = "llama-cpp"
     /\ lastOutcome \in {"binary_not_found", "nonzero_exit", "timeout"}) =>
        /\ exc # "TimeoutExpired"
        /\ status[LastInvoked] = "error: backend"
        /\ ~IndexSetDone(LastInvoked)

-----------------------------------------------------------------------------
\* Properties of the Index file and of what a status line promises

\* C13: the index file is written at most once in a run, by the flush at its end,
\* and only if index.set was executed in the run; without a set the file is
\* neither created nor rewritten.
C13_WrittenOnlyAfterSet ==
    /\ (disk # disk0 \/ tmp # "none") =>
          /\ saves = 1
          /\ changed
          /\ \E k \in Positions : IndexSetDone(k)
    /\ disk # disk0 => pc = "returned"
    /\ saves <= 1

C13_Witness ==
    /\ pc = "returned" /\ saves = 1
    /\ store = "auto" /\ index_path = "dir" /\ ~disk0.exists /\ ~disk.exists
    /\ Len(images) > 1
    /\ \A k \in Positions : images[k] /\ status[k] = "ok"

\* the run started on an empty Index and every image's caption goes to the Index
JsonWritingRun ==
    /\ LoopReached
    /\ ~disk0.exists
    /\ \/ store \in {"json", "both"}
       \/ store = "auto" /\ \A k \in Positions : ~images[k]

\* C14: from an empty Index in a JSON-writing mode, the keys of the Index are at
\* any time the images reported ok; an image reported as an error adds none.
C14_KeysAreOkImages ==
    JsonWritingRun =>
        {k \in KeySpace : IndexHas(data, k)} = {k \in Positions : status[k] = "ok"}

C14_Witness ==
    /\ JsonWritingRun /\ Ended
    /\ \E k \in Positions : status[k] = "ok" /\ IndexHas(data, k)
    /\ \E k \in Positions : status[k] = "error: store" /\ ~IndexHas(data, k)

\* C17: an image reported ok had its caption committed in that iteration: the tag
\* was written, or its record was set in an Index that has a file path.
C17_OkImpliesStored ==
    \A k \in Positions :
        status[k] = "ok" =>
            \/ meta_result[k] = "stored" /\ tag[k]
            \/ IndexSetDone(k) /\ index_path \in {"dir", "bare"}

C17_Witness ==
    \E k \in Positions :
        /\ status[k] = "ok" /\ meta_result[k] = "not attempted"
        /\ args_index = "" /\ IndexSetDone(k)

\* C18: when the index file existed at the start, the document the flush writes
\* is the document loaded at the start with the keys set in this run replaced by
\* their new records; every other record is there unchanged.
C18_FlushPreservesOthers ==
    (disk0.exists /\ disk # disk0) =>
        \A k \in KeySpace :
            disk.doc[k] = IF k \in Positions /\ IndexSetDone(k) THEN run
                          ELSE disk0.doc[k]

C18_Witness ==
    /\ pc = "returned" /\ disk0.exists /\ disk # disk0
    /\ disk.doc[0] = "old"
    /\ \E k \in Positions : status[k] = "skip" /\ disk.doc[k] = "old"
    /\ \E k \in Positions : status[k] = "ok" /\ disk.doc[k] = run

\* C19: with a configured index path of any form and a set executed, save ends
\* without an exception and the file then holds the records of the Index.
C19_FlushSucceeds ==
    (Ended /\ saves = 1 /\ changed /\ index_path \in {"dir", "bare"}) =>
        /\ exc = "none"
        /\ disk.exists /\ Load(index_path, disk) = data

-----------------------------------------------------------------------------
\* Properties of the Backend invocations

\* C16: in one run describe is called at most once per image, once for every
\* image that is not skipped (every image under force), never for a skipped
\* image; an image whose call failed is reported as an error and not tried again.
C16_SingleAttempt ==
    /\ calls = Cardinality(invoked)
    /\ \A k \in Positions : status[k] = "skip" => k \notin invoked
    /\ \A k \in Positions : status[k] = "error: backend" => k \in invoked
    /\ (Ended /\ LoopReached) =>
          \A k \in Positions : status[k] # "skip" => k \in invoked
    /\ (Ended /\ LoopReached /\ force) => invoked = Positions

-----------------------------------------------------------------------------
\* The skip check against the storage dispatch, over two runs

\* the first run came back from main with an exit code (no exception left it)
FirstRunReturned == run = "second" /\ prev_ret \in {"0", "1"}
\* the stores the dispatch of lines 73-100 writes for a mode and a format class
DispatchWritesTag(mode, is_jpeg) == is_jpeg /\ mode \in {"metadata", "both", "auto"}
DispatchWritesIndex(mode, is_jpeg) ==
    mode \in {"json", "both"} \/ (mode = "auto" /\ ~is_jpeg)

\* C15: an image reported ok in one run is reported skip, with no Backend
\* invocation, in the next run with the same mode and index path and force off,
\* for every mode and format class; and an image is skipped only if every store
\* the dispatch writes for its mode and format already holds a description.
C15_SkipMirrorsDispatch ==
    /\ FirstRunReturned =>
          \A k \in Positions :
              (prev_status[k] = "ok" /\ Decided(k)) =>
                  status[k] = "skip" /\ k \notin invoked
    /\ \A k \in Positions :
          status[k] = "skip" =>
              /\ DispatchWritesTag(store, images[k]) => tag0[k]
              /\ DispatchWritesIndex(store, images[k]) => IndexHadKey(k)

\* C15 amended: the same, for a first run that returned, except under mode both
\* for a format that is not tag-capable: such an image is never skipped, and the
\* next run describes it again although the first run reported it ok.
C15_SkipMirrorsDispatchButBoth ==
    /\ FirstRunReturned =>
          \A k \in Positions :
              (prev_status[k] = "ok" /\ Decided(k)) =>
                  IF store = "both" /\ ~images[k]
                     THEN status[k] # "skip" /\ k \in invoked
                     ELSE status[k] = "skip" /\ k \notin invoked
    /\ \A k \in Positions :
          status[k] = "skip" =>
              /\ DispatchWritesTag(store, images[k]) => tag0[k]
              /\ DispatchWritesIndex(store, images[k]) => IndexHadKey(k)

C15_Witness ==
    /\ FirstRunReturned /\ pc = "returned" /\ store = "both"
    /\ \E k \in Positions : prev_status[k] = "ok" /\ images[k] /\ status[k] = "skip"
    /\ \E k \in Positions : prev_status[k] = "ok" /\ ~images[k] /\ status[k] = "ok"

-----------------------------------------------------------------------------
\* store.py, JsonIndex on its own: an object constructed on a path, then any
\* sequence of has, set and save.  has changes nothing, so it has no action: the
\* properties evaluate IndexHas in every state.

\* JsonIndex.__init__, lines 19-23, with path None (""), a path with a directory
\* component, or a bare file name
InitIndex ==
    /\ store = "auto" /\ force = FALSE /\ backend = "ollama" /\ llama_args = {}
    /\ args_index = "" /\ base_dir = "dir" /\ path_kind = "dir" /\ images = <<>>
    /\ tag = [k \in 1 .. MaxImages |-> FALSE]
    /\ index_path \in {"", "dir", "bare"}
    /\ disk \in {NoFile} \cup {File(d) : d \in [KeySpace -> {"old", Absent}]}
    /\ index_path = "" => disk = NoFile
    /\ tmp = "none"
    /\ run = "first"
    /\ pc = "index_api"
    /\ i = 1
    /\ data = Load(index_path, disk)
    /\ changed = FALSE
    /\ had_errors = FALSE
    /\ status = NoStatus
    /\ invoked = {}
    /\ calls = 0
    /\ meta_result = NoStatus
    /\ lastOutcome = "none"
    /\ saves = 0
    /\ ret = "none"
    /\ exc = "none"
    /\ tag0 = tag
    /\ disk0 = disk
    /\ prev_status = NoStatus
    /\ prev_ret = "none"
    /\ prompt = <<>> /\ stdout = <<>> /\ cleaned = <<>> /\ cleaned2 = <<>>

\* JsonIndex.set, lines 36-38
ApiSet ==
    /\ pc = "index_api"
    /\ \E key \in KeySpace, value \in Records : data' = IndexSet(data, key, value)
    /\ changed' = TRUE
    /\ UNCHANGED <<args, cleanState, fs, snapshots, loopState, index_path, run, pc, saves, ret, exc>>

\* JsonIndex.save returns at line 42
ApiSaveNothing ==
    /\ pc = "index_api"
    /\ SaveReturnsEarly(index_path, changed)
    /\ saves' = 1
    /\ UNCHANGED <<args, cleanState, fs, snapshots, loopState, indexState, run, pc, ret, exc>>

\* JsonIndex.save, line 43 raises
ApiSaveMakedirsRaises ==
    /\ pc = "index_api"
    /\ ~SaveReturnsEarly(index_path, changed)
    /\ MakedirsRaises(index_path)
    /\ saves' = 1
    /\ pc' = "raised"
    /\ exc' = "FileNotFoundError"
    /\ UNCHANGED <<args, cleanState, fs, snapshots, loopState, indexState, run, ret>>

\* JsonIndex.save, lines 43-50
ApiSaveOpen ==
    /\ pc = "index_api"
    /\ ~SaveReturnsEarly(index_path, changed)
    /\ ~MakedirsRaises(index_path)
    /\ saves' = 1
    /\ IF SaveWritesTo(index_path) = "temp"
          THEN tmp' = "partial" /\ disk' = disk
          ELSE disk' = PartialFile /\ tmp' = tmp
    /\ pc' = "api_dump"
    /\ UNCHANGED <<args, cleanState, tag, snapshots, loopState, indexState, run, ret, exc>>

\* JsonIndex.save, lines 51-53
ApiSaveDump ==
    /\ pc = "api_dump"
    /\ IF SaveWritesTo(index_path) = "temp"
          THEN tmp' = "complete" /\ disk' = disk
          ELSE disk' = File(data) /\ tmp' = tmp
    /\ pc' = "api_replace"
    /\ UNCHANGED <<args, cleanState, tag, snapshots, loopState, indexState, run, saves, ret, exc>>

\* JsonIndex.save, line 54; save returns to the caller
ApiSaveReplace ==
    /\ pc = "api_replace"
    /\ IF SaveWritesTo(index_path) = "temp"
          THEN tmp' = "none" /\ disk' = File(data)
          ELSE UNCHANGED <<tmp, disk>>
    /\ pc' = "index_api"
    /\ UNCHANGED <<args, cleanState, tag, snapshots, loopState, indexState, run, saves, ret, exc>>

NextIndex ==
    \/ ApiSet
    \/ ApiSaveNothing
    \/ ApiSaveMakedirsRaises
    \/ ApiSaveOpen
    \/ ApiSaveDump
    \/ ApiSaveReplace

SpecIndex == InitIndex /\ [][NextIndex]_vars

\* C11: a JsonIndex constructed with no path is a no-op sink: after any sequence
\* of has, set and save, has answers false for every key (keys passed to set
\* included), set has had no effect on the object, and save has written no file.
C11_NoPathIsNoOp ==
    index_path = "" =>
        /\ \A key \in KeySpace : ~IndexHas(data, key)
        /\ data = EmptyDoc /\ ~changed
        /\ disk = NoFile /\ tmp = "none"

-----------------------------------------------------------------------------
\* backends.py, the clean step on its own: a raw output and a prompt, cleaned
\* once (describe, line 161) and then cleaned again

InitClean ==
    /\ store = "auto" /\ force = FALSE /\ backend = "llama-cpp"
    /\ llama_args = LlamaParams
    /\ args_index = "" /\ base_dir = "dir" /\ path_kind = "dir" /\ images = <<>>
    /\ tag = [k \in 1 .. MaxImages |-> FALSE]
    /\ index_path = "unset"
    /\ disk = NoFile
    /\ tmp = "none"
    /\ run = "first"
    /\ pc = "clean"
    /\ i = 1
    /\ data = EmptyDoc
    /\ changed = FALSE
    /\ had_errors = FALSE
    /\ status = NoStatus
    /\ invoked = {}
    /\ calls = 0
    /\ meta_result = NoStatus
    /\ lastOutcome = "none"
    /\ saves = 0
    /\ ret = "none"
    /\ exc = "none"
    /\ tag0 = tag
    /\ disk0 = disk
    /\ prev_status = NoStatus
    /\ prev_ret = "none"
    /\ prompt \in SeqsUpTo(Pieces, MaxPrompt)
    /\ stdout \in SeqsUpTo(Pieces, MaxText)
    /\ cleaned = <<>>
    /\ cleaned2 = <<>>

mainState == <<args, fs, snapshots, loopState, indexState, run, saves, ret, exc>>

\* LlamaCppBackend.describe, line 161
CleanOnce ==
    /\ pc = "clean"
    /\ cleaned' = _clean_llama_output(stdout, prompt)
    /\ pc' = "cleaned"
    /\ UNCHANGED <<mainState, prompt, stdout, cleaned2>>

\* the clean step applied to text it has already cleaned
CleanAgain ==
    /\ pc = "cleaned"
    /\ cleaned2' = _clean_llama_output(cleaned, prompt)
    /\ pc' = "cleaned twice"
    /\ UNCHANGED <<mainState, prompt, stdout, cleaned>>

NextClean ==
    \/ CleanOnce
    \/ CleanAgain

SpecClean == InitClean /\ [][NextClean]_vars

StartsWithMarker(s) == \E n \in DOMAIN RoleMarkers : StartsWith(s, <<RoleMarkers[n]>>)
\* the text still begins with the prompt or with a role marker
StillPrefixed(s, p) == (p # <<>> /\ StartsWith(s, p)) \/ StartsWithMarker(s)

\* C12: the clean step is idempotent: cleaning text that has been cleaned, with
\* the same prompt, returns it unchanged, for every raw text and every prompt.
C12_CleanIdempotent ==
    pc = "cleaned twice" => cleaned2 = cleaned

\* C12 amended: cleaning removes one echo of the prompt and then one role marker,
\* so cleaning again changes the text exactly when the cleaned text itself still
\* begins with the prompt or with a role marker; the result is always trimmed.
C12_CleanIdempotentUnlessPrefixed ==
    /\ pc = "cleaned twice" => (cleaned2 = cleaned <=> ~StillPrefixed(cleaned, prompt))
    /\ pc = "cleaned twice" => Len(cleaned2) <= Len(cleaned)
    /\ pc # "clean" => strip(cleaned) = cleaned

C12_Witness ==
    /\ pc = "cleaned twice"
    /\ prompt # <<>> /\ StartsWith(stdout, prompt)
    /\ StartsWithMarker(DropFirst(stdout, Len(prompt)))
    /\ cleaned # <<>> /\ cleaned # stdout
    /\ cleaned2 = cleaned

====
